---------------------------- MODULE Spec2Model ----------------------------
(***************************************************************************)
(* FinClose AI: the payroll reconciliation pipeline and the ZIP accrual    *)
(* pipeline (src/agents), each a LangGraph StateGraph of steps over one    *)
(* state dictionary, with the value types of src/shared/models.py.         *)
(*                                                                         *)
(* Money is counted in cents: 1000.0 is 100000 and the 0.01 tolerance is   *)
(* 1.  Dates are day numbers.  The two external collaborators the steps    *)
(* call (the LLM used as classification oracle and as service-period       *)
(* oracle) answer nondeterministically: a call may raise, may return text  *)
(* that is not JSON, or JSON with any of the fields present or missing.    *)
(***************************************************************************)
EXTENDS Integers, Sequences, FiniteSets, TLC

\* ------------------------------------------------------------------ bounds
MaxAccounts == 2
MaxInvoices == 2
MaxDay == 3
\* entries the message log may hold when a step starts
MaxMessages == 512
\* the clock instants at which a request can be created, counted from the
\* first: 0..MaxTick
MaxTick == 2

\* ------------------------------------------------------- program constants
\* PayrollReconciliationAgent.MATERIALITY_THRESHOLD = 1000.0, in cents
MATERIALITY_THRESHOLD == 100000
\* the 0.01 of `abs(variance_amount) > 0.01` and of validate_balance, in cents
TOLERANCE == 1
\* account=2110, the accrued-liabilities account of the credit line
ACCRUED_LIABILITIES == 2110
\* metadata.get("close_date", "2025-11-30"): the close date as a day number
CLOSE_DATE == 2

Absent == "ABSENT"

Abs(x) == IF x < 0 THEN -x ELSE x

\* ---------------------------------------------------------------- enums
WorkflowStatus ==
    {"pending", "in_progress", "awaiting_approval", "approved", "rejected",
     "completed", "error"}

\* VarianceClassification[name]: the member NAMES accepted by the lookup
VarianceClassification ==
    [n \in {"TIMING", "TRUE_VARIANCE", "KNOWN_ADJUSTMENT", "IMMATERIAL"} |->
        CASE n = "TIMING" -> "timing"
          [] n = "TRUE_VARIANCE" -> "true_variance"
          [] n = "KNOWN_ADJUSTMENT" -> "known_adjustment"
          [] n = "IMMATERIAL" -> "immaterial"]

\* ------------------------------------------------------- shared utilities
\* Mutant: an amount equal to the threshold is not material
calculate_materiality_strict(amount, threshold) == Abs(amount) > threshold

calculate_materiality(amount, threshold) == Abs(amount) >= threshold

\* ===================================================================
\* Payroll reconciliation: pure parts
\* ===================================================================

\* netsuite_lookup = {item["account"]: item ...}: a later item wins
netsuite_lookup_has(netsuite, account) ==
    \E i \in 1..Len(netsuite) : netsuite[i].account = account

netsuite_lookup_get(netsuite, account) ==
    LET idx == {i \in 1..Len(netsuite) : netsuite[i].account = account}
        last == CHOOSE i \in idx : \A j \in idx : j <= i
    IN  netsuite[last]

\* A float that is a quotient of amounts: the exact value numerator/denominator
Ratio(numerator, denominator) == [num |-> numerator, den |-> denominator]

\* Mutant: the quotient taken without the test of the amount
variance_percent_unguarded(variance_amount, amount) ==
    Ratio(variance_amount * 100, amount)

\* (variance_amount / workday_item["amount"] * 100) if workday_item["amount"] != 0 else 0
variance_percent(variance_amount, amount) ==
    IF amount # 0 THEN Ratio(variance_amount * 100, amount) ELSE Ratio(0, 1)

\* The Variance built for one Workday item, as a sequence of zero or one
ReconcileVariance(workday_item, netsuite) ==
    IF ~netsuite_lookup_has(netsuite, workday_item.account)
    THEN << [account |-> workday_item.account,
             source_amount |-> workday_item.amount,
             target_amount |-> 0,
             variance_amount |-> workday_item.amount,
             variance_percent |-> Ratio(100, 1),
             classification |-> "None",
             explanation |-> "None",
             is_material |-> calculate_materiality(workday_item.amount,
                                                   MATERIALITY_THRESHOLD),
             requires_approval |-> TRUE] >>
    ELSE LET netsuite_item == netsuite_lookup_get(netsuite, workday_item.account)
             variance_amount == workday_item.amount - netsuite_item.amount
         IN  IF Abs(variance_amount) > TOLERANCE
             THEN << [account |-> workday_item.account,
                      source_amount |-> workday_item.amount,
                      target_amount |-> netsuite_item.amount,
                      variance_amount |-> variance_amount,
                      variance_percent |-> variance_percent(variance_amount,
                                                            workday_item.amount),
                      classification |-> "None",
                      explanation |-> "None",
                      is_material |-> calculate_materiality(variance_amount,
                                                            MATERIALITY_THRESHOLD),
                      requires_approval |-> FALSE] >>
             ELSE << >>

\* The reconciliation_results entry of one Workday item
ReconcileResult(workday_item, netsuite) ==
    LET present == netsuite_lookup_has(netsuite, workday_item.account)
        netsuite_amount ==
            IF present
            THEN netsuite_lookup_get(netsuite, workday_item.account).amount
            ELSE 0
        variance ==
            IF present THEN workday_item.amount - netsuite_amount
            ELSE workday_item.amount
    IN  [account |-> workday_item.account,
         workday_amount |-> workday_item.amount,
         netsuite_amount |-> netsuite_amount,
         variance |-> variance,
         matched |-> Abs(variance) < TOLERANCE]

RECURSIVE ReconcileVariances(_, _)
ReconcileVariances(workday, netsuite) ==
    IF workday = << >> THEN << >>
    ELSE ReconcileVariance(Head(workday), netsuite)
            \o ReconcileVariances(Tail(workday), netsuite)

ReconcileResults(workday, netsuite) ==
    [i \in 1..Len(workday) |-> ReconcileResult(workday[i], netsuite)]

\* ---- the classification oracle's answer to one call
\* raised: llm.invoke raised; parsable: response.content is JSON text holding an
\* object; each field is its JSON value or Absent.
OracleResponse(raised, parsable, classification, explanation, requires_approval) ==
    [raised |-> raised, parsable |-> parsable, classification |-> classification,
     explanation |-> explanation, requires_approval |-> requires_approval]

NoCall == OracleResponse(FALSE, FALSE, "NO_CALL", Absent, Absent)

OracleResponses ==
    {OracleResponse(TRUE, FALSE, Absent, Absent, Absent),
     OracleResponse(FALSE, FALSE, Absent, Absent, Absent),
     OracleResponse(FALSE, TRUE, "TIMING", "text", "true"),
     OracleResponse(FALSE, TRUE, "TIMING", "text", "false"),
     OracleResponse(FALSE, TRUE, "TRUE_VARIANCE", "text", "false"),
     OracleResponse(FALSE, TRUE, "KNOWN_ADJUSTMENT", "text", "false"),
     OracleResponse(FALSE, TRUE, "IMMATERIAL", "text", "false"),
     OracleResponse(FALSE, TRUE, "BOGUS", "text", "false"),
     OracleResponse(FALSE, TRUE, Absent, "text", "false"),
     OracleResponse(FALSE, TRUE, "TIMING", Absent, "false"),
     OracleResponse(FALSE, TRUE, "TIMING", "text", Absent)}

\* An answer that came back but is not the JSON object the prompt asks for
Malformed(response) ==
    /\ ~response.raised
    /\ \/ ~response.parsable
       \/ response.classification \notin
            {"TIMING", "TRUE_VARIANCE", "KNOWN_ADJUSTMENT", "IMMATERIAL"}
       \/ response.explanation = Absent
       \/ response.requires_approval = Absent

\* What the history keeps of one call: the variance it was made for, and
\* whether it raised or came back malformed
OracleCall(i, response) ==
    [variance |-> i, raised |-> response.raised, malformed |-> Malformed(response)]

\* a JSON true/false as the Python bool json.loads makes of it
JsonBool(x) == x = "true"

\* The fallback of the bare `except:` around the parsing
FallbackClassification(variance) ==
    [variance EXCEPT !.classification = "true_variance",
                     !.explanation = "fallback",
                     !.requires_approval = TRUE]

\* Mutant: a missing requires_approval read with a default of false instead of
\* raising into the fallback
ParseClassification_default(variance, response) ==
    IF ~response.parsable THEN FallbackClassification(variance)
    ELSE IF response.classification \notin DOMAIN VarianceClassification
         THEN FallbackClassification(variance)
    ELSE IF response.explanation = Absent THEN FallbackClassification(variance)
    ELSE [variance EXCEPT
            !.classification = VarianceClassification[response.classification],
            !.explanation = "oracle",
            !.requires_approval = JsonBool(response.requires_approval)]

\* json.loads, then the three assignments in order; any exception on the way
\* (not JSON, KeyError of the enum lookup, KeyError of a missing field) ends
\* in the fallback, which overwrites what was assigned before it
ParseClassification(variance, response) ==
    IF ~response.parsable THEN FallbackClassification(variance)
    ELSE IF response.classification \notin DOMAIN VarianceClassification
         THEN FallbackClassification(variance)
    ELSE IF response.explanation = Absent THEN FallbackClassification(variance)
    ELSE IF response.requires_approval = Absent THEN FallbackClassification(variance)
    ELSE [variance EXCEPT
            !.classification = VarianceClassification[response.classification],
            !.explanation = "oracle",
            !.requires_approval = JsonBool(response.requires_approval)]

ClassifyImmaterial(variance) ==
    [variance EXCEPT !.classification = "immaterial",
                     !.explanation = "below_threshold"]

\* The loop of classify_variances from variance i on.  The Variance objects are
\* mutated in place, so what was classified before a raising call stays
\* classified.  calls: the oracle calls made, in order.
RECURSIVE ClassifyLoop(_, _, _, _)
ClassifyLoop(vs, responses, i, calls) ==
    IF i > Len(vs) THEN [variances |-> vs, raised |-> FALSE, calls |-> calls]
    ELSE IF ~vs[i].is_material
         THEN ClassifyLoop([vs EXCEPT ![i] = ClassifyImmaterial(vs[i])],
                           responses, i + 1, calls)
    ELSE LET made == Append(calls, OracleCall(i, responses[i]))
         IN  IF responses[i].raised
             THEN [variances |-> vs, raised |-> TRUE, calls |-> made]
             ELSE ClassifyLoop(
                    [vs EXCEPT ![i] = ParseClassification(vs[i], responses[i])],
                    responses, i + 1, made)

\* One answer per variance: an oracle answer for a material one, none for the
\* others and for those after a call that raised
ResponseSeqs(vs) ==
    {r \in [1..Len(vs) -> OracleResponses \cup {NoCall}] :
        \A i \in 1..Len(vs) :
            IF vs[i].is_material
               /\ \A j \in 1..(i - 1) : ~r[j].raised
            THEN r[i] \in OracleResponses
            ELSE r[i] = NoCall}

\* Mutant: all() in place of any()
AnyRequiresApproval_all(vs) == \A i \in 1..Len(vs) : vs[i].requires_approval

\* any(v.requires_approval for v in state["variances"])
AnyRequiresApproval(vs) == \E i \in 1..Len(vs) : vs[i].requires_approval

\* Mutant: the two branch keys swapped
route_approval_swapped(md) ==
    IF md.needs_approval = "True" THEN "auto_approve" ELSE "needs_approval"

\* "needs_approval" if state["metadata"].get("needs_approval") else "auto_approve"
route_approval(md) ==
    IF md.needs_approval = "True" THEN "needs_approval" ELSE "auto_approve"

\* the mapping of add_conditional_edges
ApprovalEdges ==
    [needs_approval |-> "create_approval_request", auto_approve |-> "auto_approve"]

\* ---- generate_request_id
\* The clock is read in instants of half a second
TicksPerSecond == 2

\* datetime.now().strftime('%Y%m%d-%H%M%S'): the text names the second the
\* instant falls in and nothing finer; its fields have fixed widths, most
\* significant first, so texts compare as their seconds do.  The text is
\* modelled by the number of that second.
strftime(now) == now \div TicksPerSecond

\* f"REQ-{...}": a fixed prefix before the text
generate_request_id(now) == strftime(now)

\* Mutant: the request lists every variance of the state
RequiringApproval_every(vs) == vs

\* [v for v in state["variances"] if v.requires_approval]
RequiringApproval(vs) ==
    LET keep(v) == v.requires_approval IN SelectSeq(vs, keep)


\* ===================================================================
\* ZIP accrual: pure parts
\* ===================================================================

\* None in an integer-valued field (department=None, location=None)
NoneInt == 0 - 1

Days == 1..MaxDay

\* What extract_zip_data can hand on: amount, accounting dimensions, invoice
\* date.  Two invoices of one kind share a grouping key; two kinds have the
\* falsy account 0.
InvoiceKinds ==
    {[amount |-> 100, account |-> 6100, department |-> 10, class |-> 5,
      location |-> 1, invoice_date |-> 1],
     [amount |-> 100, account |-> 0, department |-> 15, class |-> 5,
      location |-> 1, invoice_date |-> 3],
     [amount |-> 301, account |-> 0, department |-> 10, class |-> 5,
      location |-> 1, invoice_date |-> 1]}

\* ---- the service-period oracle's answer to one call
\* wellformed: the JSON object has service_start_date, service_end_date (both
\* dates in %Y-%m-%d) and confidence; anything else raises in calculate_accruals
PeriodResponses ==
    {[raised |-> TRUE, parsable |-> FALSE, wellformed |-> FALSE,
      start |-> 1, end |-> 1],
     [raised |-> FALSE, parsable |-> FALSE, wellformed |-> FALSE,
      start |-> 1, end |-> 1],
     [raised |-> FALSE, parsable |-> TRUE, wellformed |-> FALSE,
      start |-> 1, end |-> 1]}
    \cup {[raised |-> FALSE, parsable |-> TRUE, wellformed |-> TRUE,
           start |-> s, end |-> e] : s \in Days, e \in Days}

\* json.loads(response.content), or the fallback period of the bare except
ParsePeriod(invoice, response) ==
    IF response.parsable
    THEN [wellformed |-> response.wellformed,
          start |-> response.start, end |-> response.end]
    ELSE [wellformed |-> TRUE,
          start |-> invoice.invoice_date, end |-> invoice.invoice_date]

\* The loop of identify_service_periods from invoice i on; invoice dicts are
\* mutated in place (invoice["service_period"] = period_info)
RECURSIVE IdentifyLoop(_, _, _)
IdentifyLoop(invoices, responses, i) ==
    IF i > Len(invoices) THEN [invoices |-> invoices, raised |-> FALSE]
    ELSE IF responses[i].raised THEN [invoices |-> invoices, raised |-> TRUE]
    ELSE IdentifyLoop(
            [invoices EXCEPT ![i].service_period =
                                << ParsePeriod(invoices[i], responses[i]) >>],
            responses, i + 1)

PeriodResponseSeqs(invoices) ==
    {r \in [1..Len(invoices) -> PeriodResponses] :
        \A i \in 1..Len(invoices) :
            (\E j \in 1..(i - 1) : r[j].raised)
                => r[i] = [raised |-> TRUE, parsable |-> FALSE,
                           wellformed |-> FALSE, start |-> 1, end |-> 1]}

\* round(x, 2) of the quotient n / d of cents, d > 0: to the nearest cent, a
\* tie to the even cent
RoundDiv(n, d) ==
    LET q == n \div d
        r == n % d
    IN  IF 2 * r > d THEN q + 1
        ELSE IF 2 * r = d THEN (IF q % 2 = 0 THEN q ELSE q + 1)
        ELSE q

\* invoice["service_period"] and its keys can be read and its dates parsed,
\* and amount / total_days does not divide by zero
AccrualComputable(invoice) ==
    /\ invoice.service_period # << >>
    /\ invoice.service_period[1].wellformed
    /\ invoice.service_period[1].end - invoice.service_period[1].start + 1 # 0

\* Mutant: the close date itself is not counted among the days in period
AccrualCalculation_exclusive(invoice, close_date) ==
    LET start_date == invoice.service_period[1].start
        end_date == invoice.service_period[1].end
        total_days == end_date - start_date + 1
        in_period == end_date <= close_date
        future == start_date > close_date
        accrual_days ==
            IF in_period THEN total_days
            ELSE IF future THEN 0
            ELSE close_date - start_date
        accrual_amount ==
            IF in_period THEN invoice.amount
            ELSE IF future THEN 0
            ELSE RoundDiv(invoice.amount * accrual_days, total_days)
    IN  [invoice_id |-> invoice.invoice_id,
         total_amount |-> invoice.amount,
         service_start |-> start_date,
         service_end |-> end_date,
         total_days |-> total_days,
         accrual_days |-> accrual_days,
         accrual_amount |-> accrual_amount,
         account |-> invoice.account,
         department |-> invoice.department,
         class |-> invoice.class,
         location |-> invoice.location]

\* The calculation dict of one invoice
AccrualCalculation(invoice, close_date) ==
    LET start_date == invoice.service_period[1].start
        end_date == invoice.service_period[1].end
        total_days == end_date - start_date + 1
        in_period == end_date <= close_date
        future == start_date > close_date
        accrual_days ==
            IF in_period THEN total_days
            ELSE IF future THEN 0
            ELSE close_date - start_date + 1
        accrual_amount ==
            IF in_period THEN invoice.amount
            ELSE IF future THEN 0
            ELSE RoundDiv(invoice.amount * accrual_days, total_days)
    IN  [invoice_id |-> invoice.invoice_id,
         total_amount |-> invoice.amount,
         service_start |-> start_date,
         service_end |-> end_date,
         total_days |-> total_days,
         accrual_days |-> accrual_days,
         accrual_amount |-> accrual_amount,
         account |-> invoice.account,
         department |-> invoice.department,
         class |-> invoice.class,
         location |-> invoice.location]

\* ---- generate_journal_entries
\* Mutant: the department is left out of the grouping key
GroupKey_no_department(calc) ==
    << calc.account, NoneInt, calc.class, calc.location >>

GroupKey(calc) == << calc.account, calc.department, calc.class, calc.location >>

Accruing(calcs) ==
    LET positive(c) == c.accrual_amount > 0 IN SelectSeq(calcs, positive)

\* Mutant: the groups are iterated latest first
RECURSIVE GroupKeys_reversed(_, _)
GroupKeys_reversed(calcs, seen) ==
    IF calcs = << >> THEN seen
    ELSE LET key == GroupKey(Head(calcs))
         IN  IF \E i \in 1..Len(seen) : seen[i] = key
             THEN GroupKeys_reversed(Tail(calcs), seen)
             ELSE GroupKeys_reversed(Tail(calcs), << key >> \o seen)

\* the keys of `grouped`, in insertion order
RECURSIVE GroupKeys(_, _)
GroupKeys(calcs, seen) ==
    IF calcs = << >> THEN seen
    ELSE LET key == GroupKey(Head(calcs))
         IN  IF \E i \in 1..Len(seen) : seen[i] = key
             THEN GroupKeys(Tail(calcs), seen)
             ELSE GroupKeys(Tail(calcs), Append(seen, key))

RECURSIVE GroupAmount(_, _)
GroupAmount(calcs, key) ==
    IF calcs = << >> THEN 0
    ELSE (IF GroupKey(Head(calcs)) = key THEN Head(calcs).accrual_amount ELSE 0)
         + GroupAmount(Tail(calcs), key)

RECURSIVE GroupInvoices(_, _)
GroupInvoices(calcs, key) ==
    IF calcs = << >> THEN << >>
    ELSE (IF GroupKey(Head(calcs)) = key THEN << Head(calcs).invoice_id >>
          ELSE << >>)
         \o GroupInvoices(Tail(calcs), key)

\* JournalEntryLine(... class_id=data["class"] ...): the field is declared with
\* alias "class", and the model is populated by alias only, so the keyword
\* class_id is dropped and the line's class stays None
DebitLine(calcs, key) ==
    [account |-> key[1],
     debit |-> GroupAmount(Accruing(calcs), key),
     credit |-> 0,
     department |-> key[2],
     class_id |-> NoneInt,
     location |-> key[4],
     memo |-> GroupInvoices(Accruing(calcs), key)]

DebitLines(calcs) ==
    LET keys == GroupKeys(Accruing(calcs), << >>)
    IN  [i \in 1..Len(keys) |-> DebitLine(calcs, keys[i])]

RECURSIVE SumDebit(_)
SumDebit(lines) ==
    IF lines = << >> THEN 0 ELSE Head(lines).debit + SumDebit(Tail(lines))

RECURSIVE SumCredit(_)
SumCredit(lines) ==
    IF lines = << >> THEN 0 ELSE Head(lines).credit + SumCredit(Tail(lines))

\* total_accrual = sum(data["amount"] for data in grouped.values())
TotalAccrual(calcs) == SumDebit(DebitLines(calcs))

CreditLine(calcs) ==
    [account |-> ACCRUED_LIABILITIES,
     debit |-> 0,
     credit |-> TotalAccrual(calcs),
     department |-> NoneInt,
     class_id |-> NoneInt,
     location |-> NoneInt,
     memo |-> << >>]

JournalLines(calcs) == Append(DebitLines(calcs), CreditLine(calcs))

\* JournalEntry.validate_balance: sets the two totals and compares them
validate_balance(lines) == Abs(SumDebit(lines) - SumCredit(lines)) < TOLERANCE

JournalEntry(lines) ==
    [lines |-> lines, total_debit |-> SumDebit(lines),
     total_credit |-> SumCredit(lines)]

\* Mutant: the credit line carries the invoices' full amounts and the entry is
\* stored without the balance check
RECURSIVE SumTotalAmount(_)
SumTotalAmount(calcs) ==
    IF calcs = << >> THEN 0
    ELSE Head(calcs).total_amount + SumTotalAmount(Tail(calcs))

GeneratedEntries_unchecked(calcs) ==
    << JournalEntry(Append(DebitLines(calcs),
                           [CreditLine(calcs) EXCEPT
                                !.credit = SumTotalAmount(calcs)])) >>

\* What generate_journal_entries stores in state["journal_entries"]: [je] when
\* je.validate_balance() holds, nothing (the ValueError) when it does not
GeneratedEntries(calcs) ==
    LET lines == JournalLines(calcs)
    IN  IF validate_balance(lines) THEN << JournalEntry(lines) >> ELSE << >>

\* ---- validate_entries
LineErrors(line) ==
    (IF line.account = 0 THEN << "Missing account on line" >> ELSE << >>)
    \o (IF line.debit # 0 /\ line.credit # 0
        THEN << "Line has both debit and credit" >> ELSE << >>)
    \o (IF line.debit = 0 /\ line.credit = 0
        THEN << "Line has no amount" >> ELSE << >>)

RECURSIVE LinesErrors(_)
LinesErrors(lines) ==
    IF lines = << >> THEN << >>
    ELSE LineErrors(Head(lines)) \o LinesErrors(Tail(lines))

EntryErrors(je) ==
    (IF ~validate_balance(je.lines) THEN << "JE does not balance" >> ELSE << >>)
    \o LinesErrors(je.lines)

\* Mutant: fail-fast, only the first violation is reported
RECURSIVE validation_errors_first(_)
validation_errors_first(jes) ==
    IF jes = << >> THEN << >>
    ELSE IF EntryErrors(Head(jes)) # << >>
         THEN << Head(EntryErrors(Head(jes))) >>
         ELSE validation_errors_first(Tail(jes))

RECURSIVE validation_errors(_)
validation_errors(jes) ==
    IF jes = << >> THEN << >>
    ELSE EntryErrors(Head(jes)) \o validation_errors(Tail(jes))


\* ===================================================================
\* The state of one agent and its run
\* ===================================================================
VARIABLES
    agent,                  \* which agent class was constructed
    pc,                     \* the node the compiled graph executes next
    messages, status, error, metadata,  \* BaseAgentState
    workday_data, netsuite_data, reconciliation_results, variances,
    zip_invoices, accrual_calculations, journal_entries,
    approval_request,       \* << >> is None, << r >> an ApprovalRequest
    trace,                  \* history: the steps executed, with the status each returned
    oracle_calls,           \* history: the classification calls made, with their answers
    route_taken,            \* history: the key route_approval returned
    thread_log,             \* history: the steps executed under the thread id, over all runs
    request_log             \* history: the requests the process created, with the instant of each

vars ==
    << agent, pc, messages, status, error, metadata, workday_data, netsuite_data,
       reconciliation_results, variances, zip_invoices, accrual_calculations,
       journal_entries, approval_request, trace, oracle_calls, route_taken,
       thread_log, request_log >>

payroll_vars == << workday_data, netsuite_data, reconciliation_results, variances >>
zip_vars == << zip_invoices, accrual_calculations, journal_entries >>
history_vars == << oracle_calls, route_taken >>

\* error: the items of the message, << >> for None
NoError == << >>

\* ---- what the two extraction steps can hand on
WorkdayAmounts == {0, 1, MATERIALITY_THRESHOLD, MATERIALITY_THRESHOLD + 2}
NetsuiteAmounts == {0, MATERIALITY_THRESHOLD}

\* Workday items for the accounts 1..n, in order
WorkdayDatasets ==
    UNION {{[i \in 1..n |-> [account |-> i, amount |-> f[i]]] :
                f \in [1..n -> WorkdayAmounts]} : n \in 0..MaxAccounts}

RECURSIVE NetsuiteItems(_, _)
NetsuiteItems(f, a) ==
    IF a > MaxAccounts THEN << >>
    ELSE (IF f[a] = NoneInt THEN << >> ELSE << [account |-> a, amount |-> f[a]] >>)
         \o NetsuiteItems(f, a + 1)

\* NetSuite items for any subset of the accounts 1..MaxAccounts
NetsuiteDatasets ==
    {NetsuiteItems(f, 1) : f \in [1..MaxAccounts -> NetsuiteAmounts \cup {NoneInt}]}

RECURSIVE InvoicesOf(_, _)
InvoicesOf(kinds, i) ==
    IF i > Len(kinds) THEN << >>
    ELSE << [invoice_id |-> i, amount |-> kinds[i].amount,
             account |-> kinds[i].account, department |-> kinds[i].department,
             class |-> kinds[i].class, location |-> kinds[i].location,
             invoice_date |-> kinds[i].invoice_date,
             service_period |-> << >>] >>
         \o InvoicesOf(kinds, i + 1)

ZipDatasets ==
    UNION {{InvoicesOf(k, 1) : k \in [1..n -> InvoiceKinds]} : n \in 0..MaxInvoices}

\* ---- the graphs: set_entry_point and add_edge
EntryPoint(a) ==
    IF a = "payroll" THEN "extract_workday_data" ELSE "extract_zip_data"

PayrollEdges ==
    [extract_workday_data |-> "fetch_netsuite_data",
     fetch_netsuite_data |-> "reconcile_accounts",
     reconcile_accounts |-> "classify_variances",
     classify_variances |-> "determine_approval_needed",
     create_approval_request |-> "send_notification",
     auto_approve |-> "send_notification",
     send_notification |-> "END"]

ZipEdges ==
    [extract_zip_data |-> "fetch_netsuite_bills",
     fetch_netsuite_bills |-> "identify_service_periods",
     identify_service_periods |-> "calculate_accruals",
     calculate_accruals |-> "generate_journal_entries",
     generate_journal_entries |-> "validate_entries",
     validate_entries |-> "create_approval_request",
     create_approval_request |-> "END"]

\* The compiled graph after a node returned: the state it returned is the
\* state, and the node its edge names comes next, whatever the status
Returned(step, new_status) == Append(trace, [step |-> step, status |-> new_status])

\* messages: Annotated[List, operator.add]: what a node returns for the key
\* is added to the channel, it does not replace it
operator_add(channel, update) == channel \o update

\* Mutant: the node's messages replace the log, the latest entry is all it holds
Written_overwrite(entries) == entries

\* state["messages"].append(...) and `return state`: the node appends to the
\* list it was handed, which is the channel's own list, and returns that list
\* whole: the channel becomes the list, appended to, added to itself.  A
\* failure path appends nothing and returns the list as it was handed.
Written(entries) ==
    LET returned == messages \o entries
    IN  operator_add(returned, returned)

\* One node of the compiled graph has run and returned
Step(step, new_status, appended) ==
    /\ Len(messages) < MaxMessages
    /\ trace' = Returned(step, new_status)
    /\ messages' = Written(IF appended THEN << step >> ELSE << >>)
    /\ thread_log' = Append(thread_log, step)

\* Mutant: the failure is logged, the error field is left None
str_none(e) == << >>

\* state["error"] = str(e): the items of the message
str(e) == << e >>

\* what the caller may pass as the materiality threshold override in `inputs`
\* (NoneInt: no override); only the payroll pipeline has a threshold
ThresholdOverrides(a) ==
    IF a = "payroll" THEN {NoneInt, 2 * MATERIALITY_THRESHOLD} ELSE {NoneInt}

\* The instants a clock reading can return now.  Instants are counted from the
\* first reading the process makes for a request; a later reading returns no
\* earlier instant than the one before it.
Instants ==
    IF request_log = << >> THEN {0}
    ELSE request_log[Len(request_log)].at..MaxTick

\* ApprovalRequest(request_id=generate_request_id(), ...) at the instant now
Requested(now) == [request_id |-> generate_request_id(now), at |-> now]

\* ---- construction and run()
Constructed ==
    /\ agent \in {"payroll", "zip"}
    /\ pc = "idle"
    /\ status = "pending"
    /\ error = NoError
    /\ metadata = [needs_approval |-> "None", materiality_threshold |-> NoneInt]
    /\ messages = << >>
    /\ thread_log = << >>
    /\ workday_data = << >>
    /\ netsuite_data = << >>
    /\ reconciliation_results = << >>
    /\ variances = << >>
    /\ zip_invoices = << >>
    /\ accrual_calculations = << >>
    /\ journal_entries = << >>
    /\ approval_request = << >>
    /\ trace = << >>
    /\ oracle_calls = << >>
    /\ route_taken = "none"

\* A process that has created no request yet
Init == Constructed /\ request_log = << >>

\* A process in which another pipeline or thread has created a request before
InitRequests == Constructed /\ request_log = << Requested(0) >>

\* run(inputs): initial_state, then graph.invoke(initial_state, config) under
\* the thread id.  An invoke with an input starts at the entry point: the
\* input is written over what the checkpointer holds for the thread, each key
\* replacing the value held, messages through its reducer.
run ==
    /\ pc \in {"idle", "END"}
    /\ pc' = EntryPoint(agent)
    /\ messages' = operator_add(messages, << >>)
    /\ status' = "pending"
    /\ error' = NoError
    /\ \E override \in ThresholdOverrides(agent) :
        metadata' = [needs_approval |-> "None", materiality_threshold |-> override]
    /\ workday_data' = << >>
    /\ netsuite_data' = << >>
    /\ reconciliation_results' = << >>
    /\ variances' = << >>
    /\ zip_invoices' = << >>
    /\ accrual_calculations' = << >>
    /\ journal_entries' = << >>
    /\ approval_request' = << >>
    /\ trace' = << >>
    /\ oracle_calls' = << >>
    /\ route_taken' = "none"
    /\ UNCHANGED << agent, request_log, thread_log >>

\* ===================================================================
\* Payroll reconciliation: the steps
\* ===================================================================
extract_workday_data ==
    /\ agent = "payroll" /\ pc = "extract_workday_data"
    /\ \E data \in WorkdayDatasets : workday_data' = data
    /\ status' = "in_progress"
    /\ pc' = PayrollEdges.extract_workday_data
    /\ Step("extract_workday_data", status', TRUE)
    /\ UNCHANGED << agent, request_log, error, metadata, netsuite_data, reconciliation_results,
                    variances, zip_vars, approval_request, history_vars >>

fetch_netsuite_data ==
    /\ agent = "payroll" /\ pc = "fetch_netsuite_data"
    /\ \E data \in NetsuiteDatasets : netsuite_data' = data
    /\ pc' = PayrollEdges.fetch_netsuite_data
    /\ Step("fetch_netsuite_data", status, TRUE)
    /\ UNCHANGED << agent, request_log, status, error, metadata, workday_data,
                    reconciliation_results, variances, zip_vars, approval_request,
                    history_vars >>

reconcile_accounts ==
    /\ agent = "payroll" /\ pc = "reconcile_accounts"
    /\ reconciliation_results' = ReconcileResults(workday_data, netsuite_data)
    /\ variances' = ReconcileVariances(workday_data, netsuite_data)
    /\ pc' = PayrollEdges.reconcile_accounts
    /\ Step("reconcile_accounts", status, TRUE)
    /\ UNCHANGED << agent, request_log, status, error, metadata, workday_data, netsuite_data,
                    zip_vars, approval_request, history_vars >>

\* The whole step: the loop, and the outer except when an oracle call raises
classify_variances ==
    /\ agent = "payroll" /\ pc = "classify_variances"
    /\ \E responses \in ResponseSeqs(variances) :
        LET done == ClassifyLoop(variances, responses, 1, << >>)
        IN  /\ variances' = done.variances
            /\ oracle_calls' = done.calls
            /\ status' = IF done.raised THEN "error" ELSE status
            /\ error' = IF done.raised THEN str("llm.invoke raised") ELSE error
            /\ Step("classify_variances", status', ~done.raised)
    /\ pc' = PayrollEdges.classify_variances
    /\ UNCHANGED << agent, request_log, metadata, workday_data, netsuite_data,
                    reconciliation_results, zip_vars, approval_request, route_taken >>

\* The step, then the conditional edge: route_approval on the state returned
determine_approval_needed ==
    /\ agent = "payroll" /\ pc = "determine_approval_needed"
    /\ metadata' = [metadata EXCEPT !.needs_approval =
                        IF AnyRequiresApproval(variances) THEN "True" ELSE "False"]
    /\ route_taken' = route_approval(metadata')
    /\ pc' = ApprovalEdges[route_taken']
    /\ Step("determine_approval_needed", status, TRUE)
    /\ UNCHANGED << agent, request_log, status, error, payroll_vars, zip_vars, approval_request,
                    oracle_calls >>

payroll_create_approval_request ==
    /\ agent = "payroll" /\ pc = "create_approval_request"
    /\ \E now \in Instants :
        /\ request_log' = Append(request_log, Requested(now))
        /\ approval_request' =
            << [request_id |-> Requested(now).request_id,
                workflow_type |-> "payroll_reconciliation",
                    variances |-> RequiringApproval(variances),
                journal_entries |-> << >>] >>
    /\ status' = "awaiting_approval"
    /\ pc' = PayrollEdges.create_approval_request
    /\ Step("create_approval_request", status', TRUE)
    /\ UNCHANGED << agent, error, metadata, payroll_vars, zip_vars, history_vars >>

auto_approve ==
    /\ agent = "payroll" /\ pc = "auto_approve"
    /\ status' = "completed"
    /\ pc' = PayrollEdges.auto_approve
    /\ Step("auto_approve", status', TRUE)
    /\ UNCHANGED << agent, request_log, error, metadata, payroll_vars, zip_vars,
                    approval_request, history_vars >>

\* Mutant: the notification marks the run completed
send_notification_completes ==
    /\ agent = "payroll" /\ pc = "send_notification"
    /\ status' = "completed"
    /\ pc' = PayrollEdges.send_notification
    /\ Step("send_notification", status', TRUE)
    /\ UNCHANGED << agent, request_log, error, metadata, payroll_vars, zip_vars,
                    approval_request, history_vars >>

\* The body cannot raise: the approval_request it reads is set whenever status
\* is awaiting_approval.  (Its except returns the state as it was handed.)
send_notification ==
    /\ agent = "payroll" /\ pc = "send_notification"
    /\ pc' = PayrollEdges.send_notification
    /\ Step("send_notification", status, TRUE)
    /\ UNCHANGED << agent, request_log, status, error, metadata, payroll_vars, zip_vars,
                    approval_request, history_vars >>


\* ===================================================================
\* ZIP accrual: the steps
\* ===================================================================
extract_zip_data ==
    /\ agent = "zip" /\ pc = "extract_zip_data"
    /\ \E data \in ZipDatasets : zip_invoices' = data
    /\ status' = "in_progress"
    /\ pc' = ZipEdges.extract_zip_data
    /\ Step("extract_zip_data", status', TRUE)
    /\ UNCHANGED << agent, request_log, error, metadata, payroll_vars, accrual_calculations,
                    journal_entries, approval_request, history_vars >>

\* netsuite_bills = []: nothing the later steps read
fetch_netsuite_bills ==
    /\ agent = "zip" /\ pc = "fetch_netsuite_bills"
    /\ pc' = ZipEdges.fetch_netsuite_bills
    /\ Step("fetch_netsuite_bills", status, TRUE)
    /\ UNCHANGED << agent, request_log, status, error, metadata, payroll_vars, zip_vars,
                    approval_request, history_vars >>

identify_service_periods ==
    /\ agent = "zip" /\ pc = "identify_service_periods"
    /\ \E responses \in PeriodResponseSeqs(zip_invoices) :
        LET done == IdentifyLoop(zip_invoices, responses, 1)
        IN  /\ zip_invoices' = done.invoices
            /\ status' = IF done.raised THEN "error" ELSE status
            /\ error' = IF done.raised THEN str("llm.invoke raised") ELSE error
            /\ Step("identify_service_periods", status', ~done.raised)
    /\ pc' = ZipEdges.identify_service_periods
    /\ UNCHANGED << agent, request_log, metadata, payroll_vars, accrual_calculations,
                    journal_entries, approval_request, history_vars >>

\* accrual_calculations is assigned after the loop: one invoice that raises
\* (no service_period, a missing key, an unparsable date, a division by zero)
\* leaves it as it was
calculate_accruals ==
    /\ agent = "zip" /\ pc = "calculate_accruals"
    /\ IF \A i \in 1..Len(zip_invoices) : AccrualComputable(zip_invoices[i])
       THEN /\ accrual_calculations' =
                [i \in 1..Len(zip_invoices) |->
                    AccrualCalculation(zip_invoices[i], CLOSE_DATE)]
            /\ UNCHANGED << status, error >>
            /\ Step("calculate_accruals", status, TRUE)
       ELSE /\ status' = "error"
            /\ error' = str("calculate_accruals raised")
            /\ UNCHANGED accrual_calculations
            /\ Step("calculate_accruals", "error", FALSE)
    /\ pc' = ZipEdges.calculate_accruals
    /\ UNCHANGED << agent, request_log, metadata, payroll_vars, zip_invoices, journal_entries,
                    approval_request, history_vars >>

generate_journal_entries ==
    /\ agent = "zip" /\ pc = "generate_journal_entries"
    /\ LET made == GeneratedEntries(accrual_calculations)
       IN  IF made # << >>
           THEN /\ journal_entries' = made
                /\ UNCHANGED << status, error >>
                /\ Step("generate_journal_entries", status, TRUE)
           ELSE /\ status' = "error"
                /\ error' = str("Journal entry does not balance")
                /\ UNCHANGED journal_entries
                /\ Step("generate_journal_entries", "error", FALSE)
    /\ pc' = ZipEdges.generate_journal_entries
    /\ UNCHANGED << agent, request_log, metadata, payroll_vars, zip_invoices,
                    accrual_calculations, approval_request, history_vars >>

validate_entries ==
    /\ agent = "zip" /\ pc = "validate_entries"
    /\ LET errors == validation_errors(journal_entries)
       IN  IF errors # << >>
           THEN /\ status' = "error"
                /\ error' = errors
                /\ Step("validate_entries", "error", FALSE)
           ELSE /\ UNCHANGED << status, error >>
                /\ Step("validate_entries", status, TRUE)
    /\ pc' = ZipEdges.validate_entries
    /\ UNCHANGED << agent, request_log, metadata, payroll_vars, zip_vars, approval_request,
                    history_vars >>

zip_create_approval_request ==
    /\ agent = "zip" /\ pc = "create_approval_request"
    /\ \E now \in Instants :
        /\ request_log' = Append(request_log, Requested(now))
        /\ approval_request' =
            << [request_id |-> Requested(now).request_id,
                workflow_type |-> "zip_accrual",
                variances |-> << >>,
                journal_entries |-> journal_entries] >>
    /\ status' = "awaiting_approval"
    /\ pc' = ZipEdges.create_approval_request
    /\ Step("create_approval_request", status', TRUE)
    /\ UNCHANGED << agent, error, metadata, payroll_vars, zip_vars, history_vars >>

\* ===================================================================
Next ==
    \/ run
    \/ extract_workday_data
    \/ fetch_netsuite_data
    \/ reconcile_accounts
    \/ classify_variances
    \/ determine_approval_needed
    \/ payroll_create_approval_request
    \/ auto_approve
    \/ send_notification
    \/ extract_zip_data
    \/ fetch_netsuite_bills
    \/ identify_service_periods
    \/ calculate_accruals
    \/ generate_journal_entries
    \/ validate_entries
    \/ zip_create_approval_request

Spec == Init /\ [][Next]_vars

SpecRequests == InitRequests /\ [][Next]_vars


\* ===================================================================
\* Properties
\* ===================================================================
Executed(step) == \E i \in 1..Len(trace) : trace[i].step = step

\* the status the (one) execution of step returned
StatusAfter(step) ==
    trace[CHOOSE i \in 1..Len(trace) : trace[i].step = step].status

TimesExecuted(step) == Cardinality({i \in 1..Len(trace) : trace[i].step = step})

\* C1: once a step has returned with status=error, no later step of the graph
\* is executed (the run halts there).
C1_HaltsOnError ==
    \A i \in 1..Len(trace) : trace[i].status = "error" => i = Len(trace)

\* C2: within one run status moves only pending->in_progress,
\* in_progress->awaiting_approval, in_progress->completed and
\* (pending|in_progress)->error; error and completed are never left.
AllowedTransitions ==
    {<< "pending", "in_progress" >>, << "in_progress", "awaiting_approval" >>,
     << "in_progress", "completed" >>, << "pending", "error" >>,
     << "in_progress", "error" >>}

C2_StatusTransitions ==
    [][pc \notin {"idle", "END"} =>
        (status' = status \/ << status, status' >> \in AllowedTransitions)]_vars

\* C3: every Workday account with no NetSuite record has a Variance, and that
\* Variance has requires_approval=true in the state determine_approval_needed
\* sees, whatever its amount and whatever the oracle answered; such a run is
\* routed to needs_approval.
SourceOnly(account) == \A j \in 1..Len(netsuite_data) : netsuite_data[j].account # account

C3_SourceOnlyRequiresApproval ==
    /\ pc = "determine_approval_needed" =>
        \A w \in 1..Len(workday_data) :
            SourceOnly(workday_data[w].account) =>
                /\ \E i \in 1..Len(variances) :
                        variances[i].account = workday_data[w].account
                /\ \A i \in 1..Len(variances) :
                        variances[i].account = workday_data[w].account
                            => variances[i].requires_approval = TRUE
    /\ (route_taken # "none"
        /\ \E w \in 1..Len(workday_data) : SourceOnly(workday_data[w].account))
            => route_taken = "needs_approval"

\* C4: a malformed oracle response for a material variance (not JSON, an
\* unknown classification name, a missing classification, explanation or
\* requires_approval) leaves that variance true_variance with
\* requires_approval=true; it does not by itself set status=error (only a
\* raising call does); and the run is routed to needs_approval.
MalformedCalls == {k \in 1..Len(oracle_calls) : oracle_calls[k].malformed}

RaisedCalls == {k \in 1..Len(oracle_calls) : oracle_calls[k].raised}

C5_OracleFailureFallback ==
    Executed("classify_variances") =>
        /\ StatusAfter("classify_variances") # "error"
        /\ \A k \in RaisedCalls :
            /\ variances[oracle_calls[k].variance].classification = "true_variance"
            /\ variances[oracle_calls[k].variance].requires_approval = TRUE
        /\ \A i \in 1..Len(variances) : variances[i].classification # "None"

\* C6: every JournalEntry held in state.journal_entries balances within 0.01;
\* had the entry built from the accrual calculations not balanced,
\* generate_journal_entries would have stored nothing and set status=error.
OutOfBalance(lines) == Abs(SumDebit(lines) - SumCredit(lines)) > TOLERANCE

C6_StoredEntriesBalance ==
    /\ \A e \in 1..Len(journal_entries) :
        /\ ~OutOfBalance(journal_entries[e].lines)
        /\ Abs(journal_entries[e].total_debit - journal_entries[e].total_credit)
                <= TOLERANCE
    /\ (Executed("generate_journal_entries")
        /\ OutOfBalance(JournalLines(accrual_calculations)))
            => /\ journal_entries = << >>
               /\ StatusAfter("generate_journal_entries") = "error"

C6_Witness ==
    /\ Executed("generate_journal_entries")
    /\ Len(journal_entries) = 1
    /\ Len(journal_entries[1].lines) = 3
    /\ journal_entries[1].total_debit > 0

\* C7: validate_entries sets status=error exactly when the journal entries
\* hold a violation (entry out of balance, line with empty account, line with
\* both sides nonzero, line with neither), the error holds one item per
\* violation found over all entries and lines, and with no violation status
\* and error are left as they were.
LinePositions(jes) ==
    UNION {{<< e, l >> : l \in 1..Len(jes[e].lines)} : e \in 1..Len(jes)}

Violations(jes) ==
    {<< e, 0, "JE does not balance" >> : e \in
        {e \in 1..Len(jes) :
            Abs(SumDebit(jes[e].lines) - SumCredit(jes[e].lines)) >= TOLERANCE}}
    \cup {<< x[1], x[2], "Missing account on line" >> : x \in
        {x \in LinePositions(jes) : jes[x[1]].lines[x[2]].account = 0}}
    \cup {<< x[1], x[2], "Line has both debit and credit" >> : x \in
        {x \in LinePositions(jes) :
            /\ jes[x[1]].lines[x[2]].debit # 0
            /\ jes[x[1]].lines[x[2]].credit # 0}}
    \cup {<< x[1], x[2], "Line has no amount" >> : x \in
        {x \in LinePositions(jes) :
            /\ jes[x[1]].lines[x[2]].debit = 0
            /\ jes[x[1]].lines[x[2]].credit = 0}}

ItemsOf(kind, items) == Cardinality({i \in 1..Len(items) : items[i] = kind})

C7_CollectAllViolations ==
    [][(agent = "zip" /\ pc = "validate_entries" /\ pc' # pc) =>
        LET found == Violations(journal_entries)
        IN  /\ found # {} =>
                /\ status' = "error"
                /\ Len(error') = Cardinality(found)
                /\ \A v \in found :
                    ItemsOf(v[3], error')
                        = Cardinality({u \in found : u[3] = v[3]})
            /\ found = {} => (status' = status /\ error' = error)]_vars

C7_Witness ==
    /\ pc = "create_approval_request"
    /\ agent = "zip"
    /\ status = "error"
    /\ Cardinality(Violations(journal_entries)) = 2
    /\ Len(error) = 2

\* C8: every line of every journal entry generate_journal_entries produces has
\* exactly one of debit/credit strictly positive and the other exactly zero,
\* also when no invoice has accrual_amount > 0.
C8_LinesOneSided ==
    \A e \in 1..Len(journal_entries) :
        \A l \in 1..Len(journal_entries[e].lines) :
            LET line == journal_entries[e].lines[l]
            IN  \/ (line.debit > 0 /\ line.credit = 0)
                \/ (line.credit > 0 /\ line.debit = 0)

\* C9: in a reconciliation run exactly one of create_approval_request and
\* auto_approve executes; when a variance requires approval the run ends
\* awaiting_approval with an ApprovalRequest, otherwise completed with none;
\* completed never goes with an ApprovalRequest nor awaiting_approval without
\* one, and at most one ApprovalRequest is created.
SomeVarianceRequiresApproval ==
    \E i \in 1..Len(variances) : variances[i].requires_approval = TRUE

C9_ExactlyOneDisposition ==
    agent = "payroll" =>
        /\ TimesExecuted("create_approval_request") <= 1
        /\ ~(Executed("create_approval_request") /\ Executed("auto_approve"))
        /\ ~(status = "completed" /\ approval_request # << >>)
        /\ ~(status = "awaiting_approval" /\ approval_request = << >>)
        /\ pc = "END" =>
            /\ TimesExecuted("create_approval_request")
                    + TimesExecuted("auto_approve") = 1
            /\ IF SomeVarianceRequiresApproval
               THEN /\ Executed("create_approval_request")
                    /\ status = "awaiting_approval"
                    /\ approval_request # << >>
               ELSE /\ Executed("auto_approve")
                    /\ status = "completed"
                    /\ approval_request = << >>

C9_Witness ==
    /\ agent = "payroll"
    /\ pc = "END"
    /\ status = "awaiting_approval"
    /\ approval_request # << >>
    /\ Len(variances) = 2
    /\ ~variances[1].requires_approval

\* C10: route_approval returns "needs_approval" exactly when some Variance had
\* requires_approval=true when determine_approval_needed ran, "auto_approve"
\* otherwise (an empty variance list included), and never another key.
C10_RouteIffAnyRequiresApproval ==
    route_taken # "none" =>
        /\ route_taken \in {"needs_approval", "auto_approve"}
        /\ route_taken = "needs_approval" <=> SomeVarianceRequiresApproval
        /\ variances = << >> => route_taken = "auto_approve"

C10_Witness ==
    /\ route_taken = "needs_approval"
    /\ Len(variances) = 2
    /\ ~variances[1].requires_approval
    /\ variances[2].requires_approval

\* C11: every Variance reconcile_accounts emits has is_material exactly when
\* the absolute value of its variance_amount is at least the materiality
\* threshold of 1000.00: an amount equal to the threshold is material, and a
\* negative variance is judged as the positive one of the same size.
C11_MaterialIffAtLeastThreshold ==
    Executed("reconcile_accounts") =>
        \A i \in 1..Len(variances) :
            variances[i].is_material <=>
                \/ variances[i].variance_amount >= MATERIALITY_THRESHOLD
                \/ variances[i].variance_amount <= 0 - MATERIALITY_THRESHOLD

C11_Witness ==
    /\ pc = "classify_variances"
    /\ \E i \in 1..Len(variances) :
        /\ variances[i].variance_amount = MATERIALITY_THRESHOLD
        /\ variances[i].is_material
    /\ \E i \in 1..Len(variances) :
        /\ variances[i].variance_amount = 0 - MATERIALITY_THRESHOLD
        /\ variances[i].is_material

\* C12: when the caller's metadata carries a materiality threshold override T,
\* every Variance reconcile_accounts emits has is_material exactly when the
\* absolute value of its variance_amount is at least T; the default 1000.00
\* decides only when no override was passed.
EffectiveThreshold ==
    IF metadata.materiality_threshold = NoneInt THEN MATERIALITY_THRESHOLD
    ELSE metadata.materiality_threshold

C12_OverrideDecidesMateriality ==
    Executed("reconcile_accounts") =>
        \A i \in 1..Len(variances) :
            variances[i].is_material <=>
                Abs(variances[i].variance_amount) >= EffectiveThreshold

\* C13: for an invoice of amount A with service window [start, end],
\* start <= end, and close date C, calculate_accruals yields accrual_amount A
\* when end <= C (a window ending on C included), 0 when start > C, and
\* otherwise A / total_days * ((C - start) + 1) rounded to the nearest cent,
\* total_days = (end - start) + 1; A = 3100.00 over 28 Nov .. 2 Dec with
\* C = 30 Nov gives 1860.00.
NearestCent(cents, numerator, denominator) ==
    2 * Abs(cents * denominator - numerator) <= denominator

ExampleInvoice ==
    [invoice_id |-> 1, amount |-> 310000, account |-> 6100, department |-> 10,
     class |-> 5, location |-> 1, invoice_date |-> 28,
     service_period |-> << [wellformed |-> TRUE, start |-> 28, end |-> 32] >>]

C13_ProratedAccrual ==
    /\ \A i \in 1..Len(accrual_calculations) :
        LET A == zip_invoices[i].amount
            start == zip_invoices[i].service_period[1].start
            end == zip_invoices[i].service_period[1].end
            accrual_amount == accrual_calculations[i].accrual_amount
        IN  start <= end =>
                IF end <= CLOSE_DATE THEN accrual_amount = A
                ELSE IF start > CLOSE_DATE THEN accrual_amount = 0
                ELSE NearestCent(accrual_amount, A * (CLOSE_DATE - start + 1),
                                 end - start + 1)
    /\ AccrualCalculation(ExampleInvoice, 30).accrual_amount = 186000

C13_Witness ==
    /\ Len(accrual_calculations) = 2
    /\ zip_invoices[1].amount = 100
    /\ zip_invoices[1].service_period[1].start = 1
    /\ zip_invoices[1].service_period[1].end = 3
    /\ accrual_calculations[1].accrual_amount = 67
    /\ zip_invoices[2].service_period[1].start = 1
    /\ zip_invoices[2].service_period[1].end = CLOSE_DATE
    /\ accrual_calculations[2].accrual_amount = zip_invoices[2].amount

\* C14: when an invoice's service window has its end before its start
\* (total_days zero or negative), calculate_accruals returns status=error with
\* an error message and emits no accrual calculation for that invoice.
Inverted(invoice) ==
    /\ invoice.service_period # << >>
    /\ invoice.service_period[1].wellformed
    /\ invoice.service_period[1].end < invoice.service_period[1].start

C14_InvertedWindowIsError ==
    (/\ agent = "zip"
     /\ Executed("calculate_accruals")
     /\ \E i \in 1..Len(zip_invoices) : Inverted(zip_invoices[i]))
        => /\ StatusAfter("calculate_accruals") = "error"
           /\ error # NoError
           /\ \A j \in 1..Len(accrual_calculations) :
                accrual_calculations[j].total_days > 0

\* C15: the journal entry generate_journal_entries builds has exactly one
\* debit line per distinct (account, department, class, location) among the
\* accrual calculations with accrual_amount > 0, its debit the sum of its
\* members' accrual_amounts and its memo naming exactly its members' invoice
\* ids, and exactly one credit line, on the accrued-liabilities account, whose
\* credit is the sum of all those accrual_amounts; a calculation with
\* accrual_amount = 0 is in no line.
AccruingPositions == {i \in 1..Len(accrual_calculations) :
                        accrual_calculations[i].accrual_amount > 0}

Dimensions(i) ==
    << accrual_calculations[i].account, accrual_calculations[i].department,
       accrual_calculations[i].class, accrual_calculations[i].location >>

Members(key) == {i \in AccruingPositions : Dimensions(i) = key}

RECURSIVE SumAccrued(_)
SumAccrued(positions) ==
    IF positions = {} THEN 0
    ELSE LET i == CHOOSE i \in positions : TRUE
         IN  accrual_calculations[i].accrual_amount + SumAccrued(positions \ {i})

LineOfGroup(line, key) ==
    /\ line.account = key[1]
    /\ line.department = key[2]
    /\ line.location = key[4]
    /\ line.debit = SumAccrued(Members(key))
    /\ line.credit = 0
    /\ Len(line.memo) = Cardinality(Members(key))
    /\ {line.memo[m] : m \in 1..Len(line.memo)}
            = {accrual_calculations[i].invoice_id : i \in Members(key)}

C15_OneDebitLinePerGroup ==
    \A e \in 1..Len(journal_entries) :
        LET lines == journal_entries[e].lines
            keys == {Dimensions(i) : i \in AccruingPositions}
            debits == {l \in 1..Len(lines) : lines[l].debit # 0}
            credits == {l \in 1..Len(lines) : lines[l].debit = 0}
        IN  /\ Cardinality(debits) = Cardinality(keys)
            /\ \A key \in keys :
                    Cardinality({l \in debits : LineOfGroup(lines[l], key)}) = 1
            /\ Cardinality(credits) = 1
            /\ \A l \in credits :
                    /\ lines[l].account = ACCRUED_LIABILITIES
                    /\ lines[l].credit = SumAccrued(AccruingPositions)

C15_Witness ==
    /\ Len(journal_entries) = 1
    /\ Len(accrual_calculations) = 2
    /\ Len(journal_entries[1].lines) = 2
    /\ Len(journal_entries[1].lines[1].memo) = 2
    /\ accrual_calculations[1].accrual_amount = 67
    /\ journal_entries[1].lines[1].debit = 167
    /\ journal_entries[1].lines[2].credit = 167

\* C16: the order and the amounts of the journal entry's lines are fixed by
\* the accrual calculations alone, which are fixed by the invoices in their
\* order and the close date: the debit lines come in the order in which their
\* grouping keys first occur among the accruing invoices, each memo in invoice
\* order, the credit line comes last, and every calculation is the one the
\* invoice at its position and the close date determine.
CalculationAt(invoice_id) ==
    CHOOSE i \in 1..Len(accrual_calculations) :
        accrual_calculations[i].invoice_id = invoice_id

C16_LineOrderFromInput ==
    /\ \A i \in 1..Len(accrual_calculations) :
        /\ accrual_calculations[i].invoice_id = zip_invoices[i].invoice_id
        /\ accrual_calculations[i].total_amount = zip_invoices[i].amount
    /\ \A e \in 1..Len(journal_entries) :
        LET lines == journal_entries[e].lines
            last == Len(lines)
        IN  /\ last >= 1
            /\ lines[last].debit = 0
            /\ lines[last].account = ACCRUED_LIABILITIES
            /\ \A l \in 1..(last - 1) :
                /\ lines[l].debit > 0
                /\ lines[l].memo # << >>
                /\ \A m \in 1..(Len(lines[l].memo) - 1) :
                    CalculationAt(lines[l].memo[m])
                        < CalculationAt(lines[l].memo[m + 1])
            /\ \A k, l \in 1..(last - 1) :
                k < l => CalculationAt(lines[k].memo[1])
                            < CalculationAt(lines[l].memo[1])

C16_Witness ==
    /\ Len(journal_entries) = 1
    /\ Len(journal_entries[1].lines) = 3
    /\ journal_entries[1].lines[1].memo = << 1 >>
    /\ journal_entries[1].lines[2].memo = << 2 >>
    /\ journal_entries[1].lines[3].credit
            = journal_entries[1].lines[1].debit + journal_entries[1].lines[2].debit

\* C17: when run() is called again with the thread id of a run that was
\* checkpointed, the steps that run executed are not executed again: no step
\* is executed twice under one thread id.
C17_NoStepTwicePerThread ==
    \A i, j \in 1..Len(thread_log) : thread_log[i] = thread_log[j] => i = j

\* C18: the message log is append-only: over every step of both pipelines,
\* whether the step succeeded or failed, and over run() itself, the log before
\* is a prefix of the log after; nothing is removed, reordered or replaced.
IsPrefix(before, after) ==
    /\ Len(before) <= Len(after)
    /\ \A i \in 1..Len(before) : after[i] = before[i]

C18_AppendOnly == [][IsPrefix(messages, messages')]_vars

C18_Witness ==
    /\ agent = "zip"
    /\ pc = "END"
    /\ Executed("calculate_accruals")
    /\ StatusAfter("calculate_accruals") = "error"
    /\ messages # << >>
    /\ messages[Len(messages)] = "create_approval_request"

\* C19: send_notification returns status, error, variances and
\* approval_request as it received them, so the status a reconciliation run
\* ends with is the one create_approval_request or auto_approve set.
C19_NotificationKeepsStatus ==
    [][(agent = "payroll" /\ pc = "send_notification" /\ pc' = "END") =>
        /\ status' = status
        /\ error' = error
        /\ variances' = variances
        /\ approval_request' = approval_request
        /\ trace[Len(trace)].step \in {"create_approval_request", "auto_approve"}
        /\ status' = trace[Len(trace)].status]_vars

C19_Witness ==
    /\ agent = "payroll"
    /\ pc = "END"
    /\ Executed("send_notification")
    /\ status = "awaiting_approval"
    /\ error # NoError
    /\ approval_request # << >>
    /\ variances # << >>

\* C20: every step is fail-soft: a step whose body fails (an oracle call that
\* raises, an invoice whose accrual cannot be computed) returns the state with
\* status=error and an error message, and the graph goes on from it: a run
\* that was started is always at one of its steps or has returned.
StepsOf(a) ==
    IF a = "payroll"
    THEN DOMAIN PayrollEdges \cup {"determine_approval_needed"}
    ELSE DOMAIN ZipEdges

Uncomputable(invoice) ==
    \/ invoice.service_period = << >>
    \/ ~invoice.service_period[1].wellformed
    \/ invoice.service_period[1].end - invoice.service_period[1].start + 1 = 0

ReturnedError(step) == StatusAfter(step) = "error" /\ error # NoError

C20_FailSoft ==
    /\ (Executed("classify_variances") /\ RaisedCalls # {})
            => ReturnedError("classify_variances")
    /\ (Executed("identify_service_periods")
        /\ \E i \in 1..Len(zip_invoices) : zip_invoices[i].service_period = << >>)
            => ReturnedError("identify_service_periods")
    /\ (Executed("calculate_accruals")
        /\ \E i \in 1..Len(zip_invoices) : Uncomputable(zip_invoices[i]))
            => ReturnedError("calculate_accruals")
    /\ pc \in {"idle", "END"} \cup StepsOf(agent)

C20_Witness ==
    /\ agent = "zip"
    /\ pc = "END"
    /\ StatusAfter("identify_service_periods") # "error"
    /\ StatusAfter("calculate_accruals") = "error"
    /\ \E i \in 1..Len(zip_invoices) :
        /\ zip_invoices[i].service_period # << >>
        /\ zip_invoices[i].service_period[1].wellformed
        /\ Uncomputable(zip_invoices[i])


\* C21: any two ApprovalRequests created by two different executions of
\* create_approval_request (in the same or different pipelines, at any two
\* times, including within the same clock second) carry different request_ids,
\* and the one created later has the greater id.
C21_RequestIdsDistinct ==
    \A i, j \in 1..Len(request_log) :
        i < j => request_log[i].request_id < request_log[j].request_id


\* C22: for every source account, reconcile_accounts emits a Variance if and
\* only if the account is absent from the target or its two amounts differ by
\* more than 0.01, and the account's reconciliation result has matched=true if
\* and only if no Variance was emitted for it (a difference of exactly 0.01 and
\* a source-only account of amount 0 included).
HasVariance(account) == \E i \in 1..Len(variances) : variances[i].account = account

TargetAmount(account) == netsuite_lookup_get(netsuite_data, account).amount

C22_VarianceIffUnmatched ==
    Executed("reconcile_accounts") =>
        \A w \in 1..Len(workday_data) :
            LET item == workday_data[w]
            IN  /\ HasVariance(item.account) <=>
                    \/ SourceOnly(item.account)
                    \/ Abs(item.amount - TargetAmount(item.account)) > TOLERANCE
                /\ reconciliation_results[w].account = item.account
                /\ reconciliation_results[w].matched <=> ~HasVariance(item.account)


\* C23: classify_variances invokes the classification oracle exactly once for
\* each material variance and never for a non-material one; a non-material
\* variance gets classification=immaterial and a generated explanation, and its
\* requires_approval is left as reconcile_accounts set it.
CallsFor(i) == Cardinality({k \in 1..Len(oracle_calls) : oracle_calls[k].variance = i})

C23_OneCallPerMaterialVariance ==
    Executed("classify_variances") =>
        \A i \in 1..Len(variances) :
            /\ CallsFor(i) = IF variances[i].is_material THEN 1 ELSE 0
            /\ ~variances[i].is_material =>
                /\ variances[i].classification = "immaterial"
                /\ variances[i].explanation = "below_threshold"
                /\ variances[i].requires_approval = SourceOnly(variances[i].account)


\* C24: every Variance emitted by reconcile_accounts has variance_amount =
\* source_amount - target_amount (target_amount = 0 for a source-only account);
\* variance_percent is 100 for a source-only account, variance_amount /
\* source_amount * 100 for an account on both sides with source_amount # 0, and
\* 0 when source_amount = 0, in which case the step does not fail with a
\* division error.
RECURSIVE GCD(_, _)
GCD(a, b) == IF b = 0 THEN a ELSE GCD(b, a % b)

\* a quotient in lowest terms, the denominator positive
LowestTerms(numerator, denominator) ==
    LET g == GCD(Abs(numerator), Abs(denominator))
        sign == IF denominator < 0 THEN 0 - 1 ELSE 1
    IN  << sign * (numerator \div g), sign * (denominator \div g) >>

\* the float is the number percent_numerator / percent_denominator
IsPercent(ratio, percent_numerator, percent_denominator) ==
    /\ ratio.den # 0
    /\ percent_denominator # 0
    /\ LowestTerms(ratio.num, ratio.den)
            = LowestTerms(percent_numerator, percent_denominator)

SourceItem(account) ==
    workday_data[CHOOSE w \in 1..Len(workday_data) : workday_data[w].account = account]

C24_VarianceAmountAndPercent ==
    /\ Executed("reconcile_accounts") => StatusAfter("reconcile_accounts") # "error"
    /\ \A i \in 1..Len(variances) :
        LET v == variances[i]
        IN  /\ v.source_amount = SourceItem(v.account).amount
            /\ v.variance_amount = v.source_amount - v.target_amount
            /\ IF SourceOnly(v.account)
               THEN /\ v.target_amount = 0
                    /\ IsPercent(v.variance_percent, 100, 1)
               ELSE /\ v.target_amount = TargetAmount(v.account)
                    /\ IF v.source_amount # 0
                       THEN IsPercent(v.variance_percent,
                                      v.variance_amount * 100, v.source_amount)
                       ELSE IsPercent(v.variance_percent, 0, 1)

\* an account on both sides with a source amount of 0, next to a source-only
\* one, after the step returned
C24_Witness ==
    /\ Executed("reconcile_accounts")
    /\ StatusAfter("reconcile_accounts") = "in_progress"
    /\ Len(variances) = 2
    /\ \E i, j \in 1..Len(variances) :
        /\ ~SourceOnly(variances[i].account)
        /\ variances[i].source_amount = 0
        /\ variances[i].variance_amount = 0 - MATERIALITY_THRESHOLD
        /\ SourceOnly(variances[j].account)
        /\ variances[j].source_amount = MATERIALITY_THRESHOLD + 2


\* C25: the ApprovalRequest created by the reconciliation pipeline lists
\* exactly the Variances of state.variances with requires_approval=true (none
\* missing, none extra, in state order), is never created with an empty
\* variance list, and leaves state.variances itself unchanged.
ApprovalPositions(vs) == {i \in 1..Len(vs) : vs[i].requires_approval}

\* the k-th position of the set, counted upwards
NthPosition(positions, k) ==
    CHOOSE i \in positions : Cardinality({j \in positions : j < i}) = k - 1

ListsExactly(listed, vs) ==
    /\ Len(listed) = Cardinality(ApprovalPositions(vs))
    /\ \A k \in 1..Len(listed) : listed[k] = vs[NthPosition(ApprovalPositions(vs), k)]

C25_RequestListsApprovalVariances ==
    [][(agent = "payroll" /\ pc = "create_approval_request") =>
        /\ approval_request' # << >>
        /\ ListsExactly(approval_request'[1].variances, variances)
        /\ approval_request'[1].variances # << >>
        /\ variances' = variances]_vars

\* a request was created from two variances of which one requires approval
C25_Witness ==
    /\ agent = "payroll"
    /\ Executed("create_approval_request")
    /\ Len(variances) = 2
    /\ ~variances[1].requires_approval
    /\ variances[2].requires_approval
    /\ approval_request # << >>
    /\ Len(approval_request[1].variances) = 1


\* C26: no reconciliation run ends with status=completed (auto-approved) while
\* state.variances holds a material Variance whose classification is unset or
\* whose requires_approval was never decided by the oracle or the fallback, for
\* example after classify_variances failed part-way through.
Undecided(variance) ==
    /\ variance.is_material
    /\ variance.classification = "None"

C26_NoCompletionWithUndecidedVariance ==
    (agent = "payroll" /\ pc = "END" /\ status = "completed") =>
        \A i \in 1..Len(variances) : ~Undecided(variances[i])


\* C27: in every state reached during a run of either pipeline, error is
\* non-null if and only if status=error; in particular a final state with
\* status awaiting_approval or completed carries error = null.
C27_ErrorIffStatusError ==
    (error # NoError) <=> (status = "error")


\* C28: after classify_variances completes without error, every Variance has
\* a classification, and it is immaterial if and only if is_material=false,
\* whatever classification name the oracle returns for a material variance.
C28_ImmaterialIffNotMaterial ==
    (Executed("classify_variances") /\ StatusAfter("classify_variances") # "error") =>
        \A i \in 1..Len(variances) :
            /\ variances[i].classification # "None"
            /\ variances[i].classification = "immaterial" <=> ~variances[i].is_material


\* C29: in the state returned by run(), the message log holds exactly one
\* entry per step that executed successfully, in execution order, with no
\* entry duplicated.
PositionInRun(step) == CHOOSE k \in 1..Len(trace) : trace[k].step = step

C29_OneMessagePerStep ==
    pc = "END" =>
        /\ \A i \in 1..Len(messages) : Executed(messages[i])
        /\ \A i, j \in 1..Len(messages) :
            i < j => PositionInRun(messages[i]) < PositionInRun(messages[j])
        /\ \A k \in 1..Len(trace) :
            trace[k].status # "error" =>
                \E i \in 1..Len(messages) : messages[i] = trace[k].step


\* C30: reconciliation covers both datasets: every account code of the source
\* or of the target dataset has a reconciliation result, and an account
\* present only in the target dataset yields a Variance with
\* requires_approval=true, as a source-only account does.
SourceAccounts == {workday_data[w].account : w \in 1..Len(workday_data)}

TargetAccounts == {netsuite_data[n].account : n \in 1..Len(netsuite_data)}

C30_BothDatasetsCovered ==
    pc = "classify_variances" =>
        /\ \A account \in SourceAccounts \cup TargetAccounts :
            \E r \in 1..Len(reconciliation_results) :
                reconciliation_results[r].account = account
        /\ \A account \in TargetAccounts \ SourceAccounts :
            \E i \in 1..Len(variances) :
                /\ variances[i].account = account
                /\ variances[i].requires_approval

=============================================================================
